---- MODULE Spec2Model ----
(***************************************************************************)
(* The `display` command of tiup-cluster (cmd/cluster/command/display.go)  *)
(* and the InitConfig task (pkg/task).                                     *)
(*                                                                         *)
(* Go strings that the code compares, splits or concatenates are modelled  *)
(* as sequences of byte values, so that `<` on strings is the bytewise     *)
(* lexicographic order Go uses and strings.Split / strings.TrimSpace are   *)
(* computed character by character.                                        *)
(***************************************************************************)
EXTENDS Integers, Sequences, FiniteSets, TLC

\* Largest number of instances in the persisted topology.
MaxInst == 3
\* Largest number of Execute / Rollback calls made on one InitConfig task.
MaxCalls == 3

(***************************************************************************)
(* Strings                                                                 *)
(***************************************************************************)
S_dash == <<45>>                                   \* "-"
S_Up == <<85, 112>>                                \* "Up"
S_active == <<97, 99, 116, 105, 118, 101>>         \* "active"
S_inactive == <<105, 110, 97, 99, 116, 105, 118, 101>>  \* "inactive"
S_failed == <<102, 97, 105, 108, 101, 100>>        \* "failed"
S_Tombstone == <<84, 111, 109, 98, 115, 116, 111, 110, 101>>  \* "Tombstone"
S_Active_ == <<65, 99, 116, 105, 118, 101, 58>>    \* "Active:"
S_running == <<40, 114, 117, 110, 110, 105, 110, 103, 41>>  \* "(running)"
S_dead == <<40, 100, 101, 97, 100, 41>>            \* "(dead)"
S_pd == <<112, 100>>                               \* "pd"
S_tikv == <<116, 105, 107, 118>>                   \* "tikv"
S_tidb == <<116, 105, 100, 98>>                    \* "tidb"
S_h1 == <<104, 49>>                                \* "h1"
S_h2 == <<104, 50>>                                \* "h2"
SP == <<32>>                                       \* " "
TAB == <<9>>                                       \* "\t"

\* s < t for Go strings: bytewise lexicographic order.
RECURSIVE StrLess(_, _)
StrLess(s, t) ==
    IF t = <<>> THEN FALSE
    ELSE IF s = <<>> THEN TRUE
    ELSE IF Head(s) # Head(t) THEN Head(s) < Head(t)
    ELSE StrLess(Tail(s), Tail(t))

\* The white space strings.TrimSpace cuts (ASCII part of unicode.IsSpace).
IsSpace(c) == c \in {9, 10, 11, 12, 13, 32}

RECURSIVE TrimLeft(_)
TrimLeft(s) ==
    IF s # <<>> /\ IsSpace(Head(s)) THEN TrimLeft(Tail(s)) ELSE s

RECURSIVE TrimRight(_)
TrimRight(s) ==
    IF s # <<>> /\ IsSpace(s[Len(s)]) THEN TrimRight(SubSeq(s, 1, Len(s) - 1)) ELSE s

\* strings.TrimSpace
TrimSpace(s) == TrimRight(TrimLeft(s))

\* strings.Split(s, " "): cuts at every single space byte; n separators give
\* n+1 parts, empty parts included.
RECURSIVE SplitAcc(_, _, _)
SplitAcc(s, cur, acc) ==
    IF s = <<>> THEN Append(acc, cur)
    ELSE IF Head(s) = 32 THEN SplitAcc(Tail(s), <<>>, Append(acc, cur))
    ELSE SplitAcc(Tail(s), Append(cur, Head(s)), acc)

Split(s) == SplitAcc(s, <<>>, <<>>)

\* strings.ToLower on ASCII.
ToLower(s) == [i \in 1..Len(s) |-> IF s[i] >= 65 /\ s[i] <= 90 THEN s[i] + 32 ELSE s[i]]

\* strconv.Itoa for n >= 0.
RECURSIVE Itoa(_)
Itoa(n) == IF n < 10 THEN <<48 + n>> ELSE Append(Itoa(n \div 10), 48 + (n % 10))

\* utils.JoinInt(ports, "/")
RECURSIVE JoinInt(_)
JoinInt(ports) ==
    IF ports = <<>> THEN <<>>
    ELSE IF Len(ports) = 1 THEN Itoa(ports[1])
    ELSE Itoa(ports[1]) \o <<47>> \o JoinInt(Tail(ports))

(***************************************************************************)
(* Topology data                                                           *)
(***************************************************************************)
\* One meta.Instance: the values its interface methods return.
Inst(role, host, ports, dirs) ==
    [id |-> host \o <<58>> \o Itoa(ports[1]),       \* ID(): "host:port"
     role |-> role, host |-> host, ports |-> ports, dirs |-> dirs]

\* "/d/<n>" and "/v/<n>": a deploy and a data directory.
DeployDir(n) == <<47, 100, 47>> \o Itoa(n)
DataDir(n) == <<47, 118, 47>> \o Itoa(n)

\* The instances a cluster may declare, listed in the order
\* ComponentsByStartOrder() / Instances() yields them: pd, tikv, tidb, and
\* declaration order inside a component.  TiDB uses a deploy dir only.
Universe ==
    << Inst(S_pd, S_h1, <<2379, 2380>>, <<DeployDir(1), DataDir(1)>>),
       Inst(S_tikv, S_h2, <<20160, 20180>>, <<DeployDir(2), DataDir(2)>>),
       Inst(S_tikv, S_h1, <<9160, 9180>>, <<DeployDir(3), DataDir(3)>>),
       Inst(S_tikv, S_h1, <<20160, 20180>>, <<DeployDir(4), DataDir(4)>>),
       Inst(S_tidb, S_h1, <<4000, 10080>>, <<DeployDir(5)>>) >>

InstIds == 1..Len(Universe)

\* A topology is the set of declared instances; Topologies bounds its size.
Topologies == {t \in SUBSET InstIds : Cardinality(t) <= MaxInst}

\* The instances of a topology in start order.
RECURSIVE InstancesOf(_, _)
InstancesOf(t, i) ==
    IF i > Len(Universe) THEN <<>>
    ELSE IF i \in t THEN <<i>> \o InstancesOf(t, i + 1)
    ELSE InstancesOf(t, i + 1)

ComponentsByStartOrder(t) == InstancesOf(t, 1)

\* Instances whose component can be retired by the managed system (stores).
Tombstonable(t) == {i \in t : Universe[i].role = S_tikv}

\* Hosts for which Context.SetClusterSSH registers an executor.
SetClusterSSH(t) == {Universe[i].host : i \in t}

\* Context.GetExecutor(host): the found flag.
GetExecutor(execs, host) == host \in execs

(***************************************************************************)
(* Inputs drawn from the environment                                       *)
(***************************************************************************)
\* What ins.Status(pdList...) answers: a membership state, or "-" when the
\* managed system gives no answer.
AuthStatuses == {S_dash, S_Up, S_Tombstone}

\* What operator.GetServiceStatus returns as its string.
ServiceOutputs ==
    { <<>>,
      S_Active_ \o SP \o S_active \o SP \o S_running,        \* "Active: active (running)"
      SP \o SP \o S_Active_ \o SP \o S_inactive \o SP \o S_dead \o SP,
                                                   \* "  Active: inactive (dead) "
      S_Active_ \o SP \o S_active,                       \* "Active: active"
      S_Active_ \o SP \o SP \o S_active \o SP \o S_running,  \* "Active:  active (running)"
      S_Active_ \o TAB \o S_active \o TAB \o S_running,      \* "Active:\tactive\t(running)"
      S_Active_ \o SP \o S_failed \o SP \o S_dead }       \* "Active: failed (dead)"

\* The --role and --node options.
FilterRoles == {{}, {S_tikv}}
FilterNodes == {{}, {Universe[3].id, Universe[5].id}}

(***************************************************************************)
(* displayClusterTopology: pure parts                                      *)
(***************************************************************************)
\* fatih/color: an SGR sequence around the text, unless colour is off.
Colorize(off, code, s) ==
    IF off THEN s ELSE <<27, 91>> \o code \o <<109>> \o s \o <<27, 91, 48, 109>>

CyanString(off, s) == Colorize(off, <<51, 54>>, s)
GreenString(off, s) == Colorize(off, <<51, 50>>, s)
HiGreenString(off, s) == Colorize(off, <<57, 50>>, s)
YellowString(off, s) == Colorize(off, <<51, 51>>, s)
RedString(off, s) == Colorize(off, <<51, 49>>, s)

formatInstanceStatus(off, status) ==
    LET l == ToLower(status) IN
    IF l \in { <<117, 112>>, <<104, 101, 97, 108, 116, 104, 121>> }
        THEN GreenString(off, status)                       \* "up", "healthy"
    ELSE IF l = <<104, 101, 97, 108, 116, 104, 121, 124, 108>>
        THEN HiGreenString(off, status)                     \* "healthy|l"
    ELSE IF l \in { <<111, 102, 102, 108, 105, 110, 101>>,
                    <<116, 111, 109, 98, 115, 116, 111, 110, 101>>,
                    <<100, 105, 115, 99, 111, 110, 110, 101, 99, 116, 101, 100>> }
        THEN YellowString(off, status)          \* "offline", "tombstone", "disconnected"
    ELSE IF l \in { <<100, 111, 119, 110>>,
                    <<117, 110, 104, 101, 97, 108, 116, 104, 121>>,
                    <<101, 114, 114>> }
        THEN RedString(off, status)                         \* "down", "unhealthy", "err"
    ELSE status

Header ==
    << <<73, 68>>, <<82, 111, 108, 101>>, <<72, 111, 115, 116>>,
       <<80, 111, 114, 116, 115>>, <<83, 116, 97, 116, 117, 115>>,
       <<68, 97, 116, 97, 32, 68, 105, 114>>,
       <<68, 101, 112, 108, 111, 121, 32, 68, 105, 114>> >>

\* The filters of the instance loop: TRUE when the instance is skipped.
Filtered(roles, nodes, ins) ==
    \/ roles # {} /\ ins.role \notin roles
    \/ nodes # {} /\ ins.id \notin nodes

\* The parse of the process manager's answer.
ParseActive(status, active) ==
    LET parts == Split(TrimSpace(active)) IN
    IF Len(parts) > 2
        THEN IF parts[2] = S_active THEN S_Up ELSE parts[2]
        ELSE status

\* The status shown for an instance: the membership answer, or, when that is
\* "-", what the live query gives.  The query's error is dropped.
ReconcileStatus(status, found, active) ==
    IF status = S_dash /\ found THEN ParseActive(status, active) ELSE status

\* TRUE when the loop asks the process manager.
LiveQueryMade(status, found) == status = S_dash /\ found

Row(off, ins, status) ==
    LET insDirs == ins.dirs
        deployDir == insDirs[1]
        dataDir == IF Len(insDirs) > 1 THEN insDirs[2] ELSE S_dash
    IN << CyanString(off, ins.id), ins.role, ins.host, JoinInt(ins.ports),
          formatInstanceStatus(off, status), dataDir, deployDir >>

\* Less without its last line: rows of one role and host compare equal.
LessWithoutPorts(lhs, rhs) ==
    IF lhs[2] # rhs[2] THEN StrLess(lhs[2], rhs[2])
    ELSE IF lhs[3] # rhs[3] THEN StrLess(lhs[3], rhs[3])
    ELSE FALSE

\* The less function handed to sort.Slice: role, then host, then ports.
Less(lhs, rhs) ==
    IF lhs[2] # rhs[2] THEN StrLess(lhs[2], rhs[2])
    ELSE IF lhs[3] # rhs[3] THEN StrLess(lhs[3], rhs[3])
    ELSE StrLess(lhs[4], rhs[4])

\* sort.Slice on a slice this short (fewer than 7 elements in every Go
\* release, fewer than 12 since pdqsort) is an insertion sort: each element is
\* swapped toward the front while it is less than its predecessor.
RECURSIVE SinkLeft(_, _)
SinkLeft(rows, j) ==
    IF j > 1 /\ Less(rows[j], rows[j - 1])
        THEN SinkLeft([rows EXCEPT ![j] = rows[j - 1], ![j - 1] = rows[j]], j - 1)
        ELSE rows

RECURSIVE InsertionSort(_, _)
InsertionSort(rows, i) ==
    IF i > Len(rows) THEN rows ELSE InsertionSort(SinkLeft(rows, i), i + 1)

\* sort.Slice(clusterTable[1:], less): the header stays, the rest is sorted.
SortTable(tbl) == <<Head(tbl)>> \o InsertionSort(Tail(tbl), 2)

(***************************************************************************)
(* State                                                                   *)
(***************************************************************************)
VARIABLES
    pc,          \* where the display command stands
    result,      \* what RunE returned: "running" until it returns
    stored,      \* the persisted ClusterMeta's topology (meta.yaml)
    original,    \* the persisted topology when the command started
    noColor,     \* color.NoColor
    filterRole,  \* opt.filterRole
    filterNode,  \* opt.filterNode
    topo,        \* displayClusterTopology: metadata.Topology
    executors,   \* the hosts registered in the current task.Context
    idx,         \* displayClusterTopology: position of the instance loop
    clusterTable,\* displayClusterTopology: the table
    built,       \* the table as it was before sort.Slice
    cur,         \* what the last loop iteration saw and decided
    metadata,    \* destroyTombstoneIfNeed: metadata.Topology (in memory)
    pdView,      \* the stores the managed system reports as Tombstone
    nodes,       \* destroyTombstoneIfNeed: the nodes of the discovery-only call
    destroyed,   \* the instances removed from the live cluster
    hist,        \* the calls made so far and how each ended
    steps,       \* the functions RunE has called, in order
    task,        \* the InitConfig task: the host of its instance
    ctxExec,     \* InitConfig's Context: host -> executor, "none" if absent
    local,       \* the cache directories os.MkdirAll created
    remote,      \* the instance.InitConfig calls: <<executor, host>>
    ret,         \* what the last Execute / Rollback returned
    calls        \* the Execute / Rollback calls made on the task

displayVars ==
    << pc, result, stored, original, noColor, filterRole, filterNode, topo,
       executors, idx, clusterTable, built, cur, metadata, pdView, nodes,
       destroyed, hist, steps >>

taskVars == << task, ctxExec, local, remote, ret, calls >>

vars == << displayVars, taskVars >>

NoCur == [seen |-> FALSE]

NoHist ==
    [needCheck |-> "none", sshKey |-> "none", clusterSSH |-> "none",
     discovery |-> "none", execute |-> "none", save |-> "none",
     nDiscovery |-> 0, nExecute |-> 0, nSave |-> 0, removed |-> {}]

\* The task part of the state while the display command runs.
TaskIdle ==
    /\ task = S_h1
    /\ ctxExec = [h \in {S_h1, S_h2} |-> "none"]
    /\ local = {}
    /\ remote = <<>>
    /\ ret = "none"
    /\ calls = <<>>

Init ==
    /\ pc = "start"
    /\ result = "running"
    /\ stored \in Topologies
    /\ original = stored
    /\ noColor \in BOOLEAN
    /\ filterRole \in FilterRoles
    /\ filterNode \in FilterNodes
    /\ topo = {}
    /\ executors = {}
    /\ idx = 0
    /\ clusterTable = <<>>
    /\ built = <<>>
    /\ cur = NoCur
    /\ metadata = {}
    /\ pdView = {}
    /\ nodes = {}
    /\ destroyed = {}
    /\ hist = NoHist
    /\ steps = <<>>
    /\ TaskIdle

\* RunE returns err.
Return(err) ==
    /\ pc' = "done"
    /\ result' = err

(***************************************************************************)
(* newDisplayCmd: RunE                                                     *)
(***************************************************************************)
\* The argument check.
RunE ==
    /\ pc = "start"
    /\ \E nargs \in 0..2 :
          IF nargs # 1
            THEN Return("help")
            ELSE pc' = "displayClusterMeta" /\ UNCHANGED result
    /\ UNCHANGED << stored, original, noColor, filterRole, filterNode, topo,
                    executors, idx, clusterTable, built, cur, metadata, pdView,
                    nodes, destroyed, hist, steps, taskVars >>

\* RunE going on after displayClusterMeta failed.
AfterClusterMetaIgnoringErr(err) == "displayClusterTopology"

\* Where RunE goes after displayClusterMeta returned err.
AfterClusterMeta(err) == IF err # "nil" THEN "done" ELSE "displayClusterTopology"

displayClusterMeta ==
    /\ pc = "displayClusterMeta"
    /\ \E notExist \in BOOLEAN, loadErr \in BOOLEAN :
          LET err == IF notExist THEN "ErrNotExists"
                     ELSE IF loadErr THEN "ErrClusterMetadata"
                     ELSE "nil"
          IN /\ pc' = AfterClusterMeta(err)
             /\ result' = IF pc' = "done" THEN err ELSE result
             /\ steps' = Append(steps, <<"displayClusterMeta", err>>)
    /\ UNCHANGED << stored, original, noColor, filterRole, filterNode, topo,
                    executors, idx, clusterTable, built, cur, metadata, pdView,
                    nodes, destroyed, hist, taskVars >>

(***************************************************************************)
(* displayClusterTopology                                                  *)
(***************************************************************************)
\* Where RunE goes after displayClusterTopology returned err.
AfterClusterTopology(err) == IF err # "nil" THEN "done" ELSE "ClusterMetadata"

\* Loading the metadata and building the Context.
TopologyBegin ==
    /\ pc = "displayClusterTopology"
    /\ \E loadErr \in BOOLEAN, keyErr \in BOOLEAN, sshErr \in BOOLEAN :
          LET err == IF loadErr THEN "ErrClusterMetadata"
                     ELSE IF keyErr THEN "ErrSetSSHKeySet"
                     ELSE IF sshErr THEN "ErrSetClusterSSH"
                     ELSE "nil"
          IN IF err # "nil"
               THEN /\ pc' = AfterClusterTopology(err)
                    /\ result' = IF pc' = "done" THEN err ELSE result
                    /\ steps' = Append(steps, <<"displayClusterTopology", err>>)
                    /\ UNCHANGED << topo, executors, idx, clusterTable >>
               ELSE /\ pc' = "instances"
                    /\ UNCHANGED steps
                    /\ topo' = stored
                    /\ executors' = SetClusterSSH(stored)
                    /\ idx' = 1
                    /\ clusterTable' = <<Header>>
                    /\ UNCHANGED result
    /\ UNCHANGED << stored, original, noColor, filterRole, filterNode, built,
                    cur, metadata, pdView, nodes, destroyed, hist, taskVars >>

\* One iteration of the instance loop.
TopologyRow ==
    /\ pc = "instances"
    /\ idx <= Len(ComponentsByStartOrder(topo))
    /\ LET i == ComponentsByStartOrder(topo)[idx]
           ins == Universe[i]
       IN IF Filtered(filterRole, filterNode, ins)
            THEN /\ cur' = NoCur
                 /\ UNCHANGED clusterTable
            ELSE \E auth \in AuthStatuses, active \in ServiceOutputs,
                    qerr \in BOOLEAN :
                   LET found == GetExecutor(executors, ins.host)
                       asked == LiveQueryMade(auth, found)
                       status == ReconcileStatus(auth, found, active)
                   IN /\ clusterTable' = Append(clusterTable, Row(noColor, ins, status))
                      /\ cur' = [seen |-> TRUE, ins |-> i, auth |-> auth,
                                 found |-> found, asked |-> asked,
                                 active |-> IF asked THEN active ELSE <<>>,
                                 qerr |-> asked /\ qerr,
                                 status |-> status]
    /\ idx' = idx + 1
    /\ UNCHANGED << pc, result, stored, original, noColor, filterRole, filterNode,
                    topo, executors, built, metadata, pdView, nodes, destroyed,
                    hist, steps, taskVars >>

\* After the loop: the sort, the print and the return.
TopologySort ==
    /\ pc = "instances"
    /\ idx > Len(ComponentsByStartOrder(topo))
    /\ built' = clusterTable
    /\ clusterTable' = SortTable(clusterTable)
    /\ pc' = AfterClusterTopology("nil")
    /\ steps' = Append(steps, <<"displayClusterTopology", "nil">>)
    /\ UNCHANGED << result, stored, original, noColor, filterRole, filterNode,
                    topo, executors, idx, cur, metadata, pdView, nodes,
                    destroyed, hist, taskVars >>

\* Back in RunE: the metadata is loaded again for destroyTombstoneIfNeed.
\* The locals of displayClusterTopology are gone.
ClusterMetadata ==
    /\ pc = "ClusterMetadata"
    /\ \E loadErr \in BOOLEAN :
          IF loadErr
            THEN /\ Return("ErrClusterMetadata")
                 /\ steps' = Append(steps, <<"ClusterMetadata", "ErrClusterMetadata">>)
                 /\ UNCHANGED metadata
            ELSE /\ pc' = "NeedCheckTomebsome"
                 /\ steps' = Append(steps, <<"ClusterMetadata", "nil">>)
                 /\ metadata' = stored
                 /\ UNCHANGED result
    /\ topo' = {}
    /\ executors' = {}
    /\ idx' = 0
    /\ clusterTable' = <<>>
    /\ built' = <<>>
    /\ cur' = NoCur
    /\ UNCHANGED << stored, original, noColor, filterRole, filterNode, pdView,
                    nodes, destroyed, hist, taskVars >>

(***************************************************************************)
(* operator.DestroyTombstone                                               *)
(***************************************************************************)
\* Discovery: the instances of the topology that the managed system reports
\* as Tombstone.  It reads the membership view and changes nothing.
Discovery(t, view) == Tombstonable(t) \cap view

\* The in-memory topology after the destructive phase removed `gone`.
RemoveFromTopology(t, gone) == t \ gone

\* The first k instances of a set, in start order.
FirstOf(t, k) == {ComponentsByStartOrder(t)[j] : j \in 1..k}

(***************************************************************************)
(* destroyTombstoneIfNeed                                                  *)
(***************************************************************************)
NeedCheckTomebsome ==
    /\ pc = "NeedCheckTomebsome"
    /\ steps' = Append(steps, <<"destroyTombstoneIfNeed", "called">>)
    /\ \E need \in BOOLEAN :
          /\ hist' = [hist EXCEPT !.needCheck = IF need THEN "yes" ELSE "no"]
          /\ IF ~need
               THEN Return("nil")
               ELSE pc' = "SetSSHKeySet" /\ UNCHANGED result
    /\ UNCHANGED << stored, original, noColor, filterRole, filterNode, topo,
                    executors, idx, clusterTable, built, cur, metadata, pdView,
                    nodes, destroyed, taskVars >>

SetSSHKeySet ==
    /\ pc = "SetSSHKeySet"
    /\ \E keyErr \in BOOLEAN :
          /\ hist' = [hist EXCEPT !.sshKey = IF keyErr THEN "err" ELSE "nil"]
          /\ IF keyErr
               THEN Return("ErrSetSSHKeySet")
               ELSE pc' = "SetClusterSSH" /\ UNCHANGED result
    /\ UNCHANGED << stored, original, noColor, filterRole, filterNode, topo,
                    executors, idx, clusterTable, built, cur, metadata, pdView,
                    nodes, destroyed, steps, taskVars >>

TombstoneClusterSSH ==
    /\ pc = "SetClusterSSH"
    /\ \E sshErr \in BOOLEAN :
          /\ hist' = [hist EXCEPT !.clusterSSH = IF sshErr THEN "err" ELSE "nil"]
          /\ IF sshErr
               THEN Return("ErrSetClusterSSH") /\ UNCHANGED executors
               ELSE /\ pc' = "discovery"
                    /\ executors' = SetClusterSSH(metadata)
                    /\ UNCHANGED result
    /\ UNCHANGED << stored, original, noColor, filterRole, filterNode, topo,
                    idx, clusterTable, built, cur, metadata, pdView, nodes,
                    destroyed, steps, taskVars >>

\* destroyTombstoneIfNeed without the len(nodes) == 0 return.
AfterDiscoveryWithoutGate(err, found) ==
    IF err # "nil" THEN "done" ELSE "execute"

\* Where destroyTombstoneIfNeed goes after the discovery-only call.
AfterDiscovery(err, found) ==
    IF err # "nil" THEN "done"
    ELSE IF Cardinality(found) = 0 THEN "done"
    ELSE "execute"

\* DestroyTombstone(ctx, topo, true) and the check of its result.
DiscoveryOnly ==
    /\ pc = "discovery"
    /\ \E discErr \in BOOLEAN :
          LET err == IF discErr THEN "ErrDestroyTombstone" ELSE "nil"
              found == IF discErr THEN {} ELSE Discovery(metadata, pdView)
          IN /\ nodes' = found
             /\ hist' = [hist EXCEPT !.discovery = err,
                                     !.nDiscovery = hist.nDiscovery + 1]
             /\ pc' = AfterDiscovery(err, found)
             /\ result' = IF pc' = "done" THEN err ELSE result
    /\ UNCHANGED << stored, original, noColor, filterRole, filterNode, topo,
                    executors, idx, clusterTable, built, cur, metadata, pdView,
                    destroyed, steps, taskVars >>

\* destroyTombstoneIfNeed saving whatever the execute-mode call returned.
AfterExecuteIgnoringErr(err) == "SaveClusterMeta"

\* Where destroyTombstoneIfNeed goes after the execute-mode call.
AfterExecute(err) == IF err # "nil" THEN "done" ELSE "SaveClusterMeta"

\* DestroyTombstone(ctx, topo, false): discovery again, then the removal of
\* each candidate in turn, stopping at the first that fails; only a complete
\* removal takes the candidates out of the in-memory topology.
ExecuteMode ==
    /\ pc = "execute"
    /\ \E discErr \in BOOLEAN :
          LET found == IF discErr THEN {} ELSE Discovery(metadata, pdView)
          IN \E k \in 0..Cardinality(found) :
                LET failed == discErr \/ k < Cardinality(found)
                    err == IF failed THEN "ErrDestroyTombstone" ELSE "nil"
                    gone == FirstOf(found, k)
                IN /\ destroyed' = destroyed \cup gone
                   /\ metadata' = IF failed THEN metadata
                                  ELSE RemoveFromTopology(metadata, found)
                   /\ hist' = [hist EXCEPT !.execute = err,
                                           !.nExecute = hist.nExecute + 1,
                                           !.removed = IF failed THEN {} ELSE found]
                   /\ pc' = AfterExecute(err)
                   /\ result' = IF pc' = "done" THEN err ELSE result
    /\ UNCHANGED << stored, original, noColor, filterRole, filterNode, topo,
                    executors, idx, clusterTable, built, cur, pdView, nodes,
                    steps, taskVars >>

\* destroyTombstoneIfNeed dropping the error of meta.SaveClusterMeta.
ReturnOfSaveDropped(err) == "nil"

\* What destroyTombstoneIfNeed returns for the result of meta.SaveClusterMeta.
ReturnOfSave(err) == err

\* meta.SaveClusterMeta(clusterName, metadata) and the return.
SaveClusterMeta ==
    /\ pc = "SaveClusterMeta"
    /\ \E saveErr \in BOOLEAN :
          LET err == IF saveErr THEN "ErrSaveClusterMeta" ELSE "nil"
          IN /\ stored' = IF saveErr THEN stored ELSE metadata
             /\ hist' = [hist EXCEPT !.save = err, !.nSave = hist.nSave + 1]
             /\ Return(ReturnOfSave(err))
    /\ UNCHANGED << original, noColor, filterRole, filterNode, topo, executors,
                    idx, clusterTable, built, cur, metadata, pdView, nodes,
                    destroyed, steps, taskVars >>

\* The managed system changes its membership view: a store becomes
\* Tombstone, or a Tombstone store is dropped from the view by someone else.
\* Only DestroyTombstone reads the view, so a change made before
\* destroyTombstoneIfNeed starts shows like one made as it starts: the view
\* moves from the reload of the metadata on.
MembershipChange ==
    /\ pc \in {"NeedCheckTomebsome", "SetSSHKeySet", "SetClusterSSH",
               "discovery", "execute", "SaveClusterMeta"}
    /\ \E i \in Tombstonable(original) :
          pdView' = IF i \in pdView THEN pdView \ {i} ELSE pdView \cup {i}
    /\ UNCHANGED << pc, result, stored, original, noColor, filterRole,
                    filterNode, topo, executors, idx, clusterTable, built, cur,
                    metadata, nodes, destroyed, hist, steps, taskVars >>

Next ==
    \/ RunE
    \/ displayClusterMeta
    \/ TopologyBegin
    \/ TopologyRow
    \/ TopologySort
    \/ ClusterMetadata
    \/ NeedCheckTomebsome
    \/ SetSSHKeySet
    \/ TombstoneClusterSSH
    \/ DiscoveryOnly
    \/ ExecuteMode
    \/ SaveClusterMeta
    \/ MembershipChange

Spec == Init /\ [][Next]_vars

(***************************************************************************)
(* The InitConfig task                                                     *)
(***************************************************************************)
Hosts == {S_h1, S_h2}

\* The remote executors a Context may hold.
Executors == {"e1", "e2"}

\* The display part of the state while a task runs.
DisplayIdle ==
    /\ pc = "task"
    /\ result = "running"
    /\ stored = {}
    /\ original = {}
    /\ noColor = FALSE
    /\ filterRole = {}
    /\ filterNode = {}
    /\ topo = {}
    /\ executors = {}
    /\ idx = 0
    /\ clusterTable = <<>>
    /\ built = <<>>
    /\ cur = NoCur
    /\ metadata = {}
    /\ pdView = {}
    /\ nodes = {}
    /\ destroyed = {}
    /\ hist = NoHist
    /\ steps = <<>>

InitTask ==
    /\ DisplayIdle
    /\ task \in Hosts
    /\ ctxExec \in [Hosts -> Executors \cup {"none"}]
    /\ local = {}
    /\ remote = <<>>
    /\ ret = "none"
    /\ calls = <<>>

\* ctx.GetExecutor(c.instance.GetHost()): the executor, "none" if not found.
LookupExecutor(ctx, host) == ctx[host]

\* Execute taking a missing executor for nothing to do.
ExecuteOutcomeSkipping(exec, mkdirErr, initErr) ==
    IF exec = "none"
        THEN [ret |-> "nil", mkdir |-> FALSE, invoke |-> FALSE]
    ELSE IF mkdirErr
        THEN [ret |-> "ErrMkdirAll", mkdir |-> FALSE, invoke |-> FALSE]
    ELSE [ret |-> IF initErr THEN "ErrInitConfig" ELSE "nil",
          mkdir |-> TRUE, invoke |-> TRUE]

\* What Execute does with the looked-up executor: what it returns, whether
\* it creates the cache directory, whether it calls instance.InitConfig.
ExecuteOutcome(exec, mkdirErr, initErr) ==
    IF exec = "none"
        THEN [ret |-> "ErrNoExecutor", mkdir |-> FALSE, invoke |-> FALSE]
    ELSE IF mkdirErr
        THEN [ret |-> "ErrMkdirAll", mkdir |-> FALSE, invoke |-> FALSE]
    ELSE [ret |-> IF initErr THEN "ErrInitConfig" ELSE "nil",
          mkdir |-> TRUE, invoke |-> TRUE]

\* InitConfig.Execute
Execute ==
    /\ pc = "task"
    /\ Len(calls) < MaxCalls
    /\ \E mkdirErr \in BOOLEAN, initErr \in BOOLEAN :
          LET exec == LookupExecutor(ctxExec, task)
              out == ExecuteOutcome(exec, mkdirErr, initErr)
          IN /\ ret' = out.ret
             /\ local' = IF out.mkdir THEN local \cup {"paths.Cache"} ELSE local
             /\ remote' = IF out.invoke THEN Append(remote, <<exec, task>>) ELSE remote
    /\ calls' = Append(calls, "Execute")
    /\ UNCHANGED << displayVars, task, ctxExec >>

\* Rollback as a silent no-op.
RollbackResultNil == "nil"

\* What Rollback returns.
RollbackResult == "ErrUnsupportedRollback"

\* InitConfig.Rollback
Rollback ==
    /\ pc = "task"
    /\ Len(calls) < MaxCalls
    /\ ret' = RollbackResult
    /\ calls' = Append(calls, "Rollback")
    /\ UNCHANGED << displayVars, task, ctxExec, local, remote >>

NextTask ==
    \/ Execute
    \/ Rollback

SpecTask == InitTask /\ [][NextTask]_vars

(***************************************************************************)
(* Properties                                                              *)
(***************************************************************************)
\* C1: if the execute-mode DestroyTombstone call returns an error,
\* meta.SaveClusterMeta is never called in that run and the persisted
\* topology still holds every original instance; SaveClusterMeta is called
\* only after the execute-mode call returned success.
C1_NoSaveAfterFailedExecute ==
    /\ hist.execute \notin {"none", "nil"} =>
          /\ hist.nSave = 0
          /\ hist.save = "none"
          /\ stored = original
          /\ pc = "done"
          /\ result = hist.execute
    /\ hist.nSave > 0 => hist.execute = "nil"
    /\ pc = "SaveClusterMeta" => hist.execute = "nil"

\* C1 witness: the destructive phase failed after removing a node, the
\* command has returned, and nothing was saved.
C1_Witness ==
    /\ pc = "done"
    /\ hist.execute = "ErrDestroyTombstone"
    /\ destroyed # {}
    /\ stored = original

\* C2: when the discovery-only call returns no node and no error,
\* destroyTombstoneIfNeed returns nil and does nothing more: no execute-mode
\* call, no SaveClusterMeta.
C2_EmptyDiscoveryIsNoOp ==
    (hist.discovery = "nil" /\ nodes = {}) =>
        /\ pc = "done"
        /\ result = "nil"
        /\ hist.nExecute = 0
        /\ hist.nSave = 0
        /\ destroyed = {}
        /\ stored = original

\* C2 witness: a topology with stores, none of them Tombstone at discovery.
C2_Witness ==
    /\ hist.discovery = "nil"
    /\ nodes = {}
    /\ Tombstonable(metadata) # {}
    /\ pc = "done"

\* C3: when the destructive phase succeeded and SaveClusterMeta fails, the
\* command returns that error, the save is made once only, and no run ends
\* in success with the stored topology differing from what is left of the
\* cluster.
C3_SaveFailureReported ==
    /\ (hist.execute = "nil" /\ hist.save = "ErrSaveClusterMeta") =>
          /\ pc = "done"
          /\ result = "ErrSaveClusterMeta"
    /\ hist.nSave <= 1
    /\ (pc = "done" /\ result = "nil") => stored = original \ destroyed

\* C3 witness: nodes were removed and the save failed.
C3_Witness ==
    /\ pc = "done"
    /\ hist.execute = "nil"
    /\ hist.save = "ErrSaveClusterMeta"
    /\ destroyed # {}

\* White-space separated tokens of a string (strings.Fields).
RECURSIVE FieldsAcc(_, _, _)
FieldsAcc(s, tok, acc) ==
    IF s = <<>> THEN (IF tok = <<>> THEN acc ELSE Append(acc, tok))
    ELSE IF IsSpace(Head(s))
        THEN FieldsAcc(Tail(s), <<>>, IF tok = <<>> THEN acc ELSE Append(acc, tok))
    ELSE FieldsAcc(Tail(s), Append(tok, Head(s)), acc)

Fields(s) == FieldsAcc(s, <<>>, <<>>)

\* The last row of the table shows the status the loop decided.
RowEmitted ==
    /\ pc = "instances"
    /\ Len(clusterTable) > 1
    /\ clusterTable[Len(clusterTable)] = Row(noColor, Universe[cur.ins], cur.status)

\* C4: for an instance whose membership status is "-", if the live query
\* fails (no executor for the host, or GetServiceStatus returns an error,
\* whatever string comes with it), the status stays "-", the row is emitted
\* and displayClusterTopology does not return an error for it.
C4_FailedQueryKeepsDash ==
    (cur.seen /\ cur.auth = S_dash /\ (~cur.found \/ cur.qerr)) =>
        /\ cur.status = S_dash
        /\ RowEmitted

\* C5: for an instance whose membership status is "-" and whose live query
\* succeeds with an answer that has a second white-space separated token w,
\* the status is "Up" when w is "active" and w otherwise; a membership status
\* other than "-" is used as it is and no live query is made.
C5_SecondTokenIsStatus ==
    /\ (cur.seen /\ cur.auth = S_dash /\ cur.asked /\ ~cur.qerr
            /\ Len(Fields(cur.active)) >= 2) =>
          cur.status = IF Fields(cur.active)[2] = S_active
                         THEN S_Up ELSE Fields(cur.active)[2]
    /\ (cur.seen /\ cur.auth # S_dash) =>
          (cur.status = cur.auth /\ ~cur.asked)

\* (role, host, ports) of row a is less than or equal to that of row b.
KeyLeq(a, b) ==
    \/ StrLess(a[2], b[2])
    \/ a[2] = b[2] /\ StrLess(a[3], b[3])
    \/ a[2] = b[2] /\ a[3] = b[3] /\ (a[4] = b[4] \/ StrLess(a[4], b[4]))

\* How often row r occurs in table t.
Occurrences(t, r) == Cardinality({i \in 1..Len(t) : t[i] = r})

\* C6: the table displayClusterTopology prints has the header first, its
\* data rows ascending by (role, host, port string), and holds exactly the
\* rows that were built.
C6_TableSorted ==
    pc = "ClusterMetadata" =>
        /\ clusterTable[1] = Header
        /\ \A i \in 2..(Len(clusterTable) - 1) :
              KeyLeq(clusterTable[i], clusterTable[i + 1])
        /\ Len(clusterTable) = Len(built)
        /\ \A i \in 1..Len(built) :
              Occurrences(clusterTable, built[i]) = Occurrences(built, built[i])

\* C6 witness: three rows were built, and the sort moved some.
C6_Witness ==
    /\ pc = "ClusterMetadata"
    /\ Len(clusterTable) >= 4
    /\ clusterTable # built

\* A Rollback call is the step taken.
RollbackStep ==
    /\ Len(calls') = Len(calls) + 1
    /\ calls'[Len(calls')] = "Rollback"

\* C7: every InitConfig.Rollback call returns ErrUnsupportedRollback,
\* whatever the Context holds and whatever Execute did before, and it creates
\* no directory and makes no remote call.
C7_RollbackUnsupported ==
    [][RollbackStep =>
          /\ ret' = "ErrUnsupportedRollback"
          /\ local' = local
          /\ remote' = remote
          /\ ctxExec' = ctxExec]_vars

\* C7 witness: Rollback was called after an Execute that succeeded.
C7_Witness ==
    /\ Len(calls) = 2
    /\ calls[1] = "Execute"
    /\ calls[2] = "Rollback"
    /\ remote # <<>>
    /\ ret = "ErrUnsupportedRollback"

\* C8: Execute on an instance whose host has no executor returns
\* ErrNoExecutor and does nothing else (no cache directory, no remote
\* InitConfig); the remote InitConfig is only ever called with the executor
\* registered for the instance's own host.
C8_NoExecutorIsAnError ==
    /\ ctxExec[task] = "none" =>
          /\ local = {}
          /\ remote = <<>>
          /\ (calls # <<>> /\ calls[Len(calls)] = "Execute") => ret = "ErrNoExecutor"
    /\ \A i \in 1..Len(remote) :
          /\ remote[i] = <<ctxExec[task], task>>
          /\ remote[i][1] \in Executors

\* C8 witness: Execute ran on a host with no executor while the other host
\* has one.
C8_Witness ==
    /\ ctxExec[task] = "none"
    /\ \E h \in Hosts : ctxExec[h] # "none"
    /\ calls # <<>>
    /\ calls[Len(calls)] = "Execute"
    /\ ret = "ErrNoExecutor"

\* C9: the nodes the execute-mode call removed, and the nodes then saved as
\* removed, are the nodes the discovery-only call returned.
C9_RemovedAreAnnounced ==
    /\ hist.execute = "nil" => hist.removed = nodes
    /\ hist.save = "nil" => original \ stored = nodes

\* The functions RunE calls, in order.
RunOrder ==
    << "displayClusterMeta", "displayClusterTopology", "ClusterMetadata",
       "destroyTombstoneIfNeed" >>

\* C10: RunE calls displayClusterMeta, displayClusterTopology, the metadata
\* reload and destroyTombstoneIfNeed in that order; an error of an earlier
\* step is returned and then no discovery, removal or save happens; the
\* persisted topology is written by the final SaveClusterMeta only, which
\* needs NeedCheckTomebsome to be true and both SSH setup calls to succeed.
C10_OrderAndSingleWrite ==
    /\ Len(steps) <= Len(RunOrder)
    /\ \A i \in 1..Len(steps) : steps[i][1] = RunOrder[i]
    /\ \A i \in 1..Len(steps) :
          (i < Len(RunOrder) /\ steps[i][2] # "nil") =>
              /\ i = Len(steps)
              /\ pc = "done"
              /\ result = steps[i][2]
    /\ (hist.nDiscovery > 0 \/ hist.nExecute > 0 \/ hist.nSave > 0 \/ destroyed # {}) =>
          /\ Len(steps) = Len(RunOrder)
          /\ \A i \in 1..(Len(RunOrder) - 1) : steps[i][2] = "nil"
          /\ hist.needCheck = "yes"
          /\ hist.sshKey = "nil"
          /\ hist.clusterSSH = "nil"
    /\ stored # original =>
          /\ hist.nSave = 1
          /\ hist.save = "nil"
          /\ hist.execute = "nil"
    /\ hist.nSave > 0 =>
          /\ hist.needCheck = "yes"
          /\ hist.sshKey = "nil"
          /\ hist.clusterSSH = "nil"
          /\ hist.execute = "nil"

\* C10 witness: the command ran to the end and rewrote the topology.
C10_Witness ==
    /\ pc = "done"
    /\ result = "nil"
    /\ stored # original
    /\ Len(steps) = Len(RunOrder)

====
